---- MODULE Spec2Model ----
(***************************************************************************)
(* Model of script.js of legacy-arc-todo: the home page (initTodos) and    *)
(* the calendar page (initCalendar) as two page sessions over one          *)
(* localStorage record.                                                    *)
(*                                                                         *)
(* script.js holds two successive versions of the same script one after    *)
(* the other (lines 1-477 and lines 478-1186).  Function declarations of   *)
(* the same name are resolved to the last one, so the model follows the    *)
(* definitions of lines 478-1186; the handlers of lines 1-477 appear only  *)
(* as the "earlier version" variants placed before the definitions they    *)
(* were replaced by.                                                       *)
(*                                                                         *)
(* Dates: a local date key YYYY-MM-DD is modelled by the number of its     *)
(* day (1, 2, ...), which keeps the order of the keys; null is Null.       *)
(* Strings the code trims are sequences of one-character strings.          *)
(***************************************************************************)
EXTENDS Integers, Sequences, FiniteSets, TLC

VARIABLES
    clock,      \* Date.now(): the instant, in clock readings since day 1 began
    storage,    \* localStorage['todoApp']: <<>> when absent, else <<the item>>
    hOpen,      \* a home page session exists (initTodos has run)
    hState,     \* the home session's in-memory state (const state, line 565)
    hView,      \* ids of the <li> items the home page shows (last render())
    hSaveBtn,   \* the Save Day button is displayed (last render())
    hTimers,    \* pending midnight timeouts: the day each one is due
    cOpen,      \* a calendar page session exists (initCalendar has run)
    cPanel,     \* currentInline: <<>> or <<[date, boxes]>>, the overlay's DOM
    last,       \* the handler that has just run, where a property asks ("none" otherwise)
    hQuote,     \* quoteEl.textContent: <<>> or <<index of the quote shown>>
    sample      \* the argument and result of a pure function (<<>> where none is applied)

vars == <<clock, storage, hOpen, hState, hView, hSaveBtn, hTimers, cOpen, cPanel, last,
         hQuote, sample>>

(* ------------------------------ bounds -------------------------------- *)
\* the last clock reading, the clock readings in one local day, and the
\* largest collection the task form is used on
MaxClock == 2
TicksPerDay == 2
MaxTasks == 2
\* for the calendar's statistics: the days of a year, the years, and the tasks
\* of a collection
YearLen == 5
StatYears == 2
StatTasks == 4
\* for the daily quote: the calendar years the selector is followed over
QuoteYears == 2
\* for the midnight timer: the last clock reading of a session followed over
\* several midnights
MaxTimerClock == 5
\* for the date keys: the last instant a key is taken at
MaxKeyInstant == 70
\* for the current streak's walk: the tasks of a collection, and the visits
\* the walk is followed over
WalkTasks == 3
MaxVisits == 8

(* ----------------------------- utilities ------------------------------ *)
Null == 0

\* todayKey(date = new Date()): the local calendar day of an instant
todayKey(now) == (now \div TicksPerDay) + 1

today == todayKey(clock)

\* the days the calendar grid offers (every day of the year is clickable)
Days == 1 .. todayKey(MaxClock)

(* --------------------------- calendar dates --------------------------- *)
\* a calendar date is [y, m, d]; the Date object's leap years and month lengths
IsLeap(y) == (y % 4 = 0 /\ y % 100 # 0) \/ y % 400 = 0

DaysInMonth(y, m) ==
    IF m = 2 THEN (IF IsLeap(y) THEN 28 + 1 ELSE 28)
    ELSE IF m \in {4, 6, 9, 11} THEN 30 ELSE 31

\* the calendar date after a date
NextDate(date) ==
    IF date.d < DaysInMonth(date.y, date.m) THEN [date EXCEPT !.d = date.d + 1]
    ELSE IF date.m < 12 THEN [y |-> date.y, m |-> date.m + 1, d |-> 1]
    ELSE [y |-> date.y + 1, m |-> 1, d |-> 1]

\* the calendar date the clock's day 1 stands for
FirstDate == [y |-> 2024, m |-> 1, d |-> 1]

\* the calendar date of a day of the clock
RECURSIVE DateOfDay(_)
DateOfDay(day) == IF day <= 1 THEN FirstDate ELSE NextDate(DateOfDay(day - 1))

(* ----------------------------- daily quote ---------------------------- *)
\* quotes.length
QuoteCount == 5

\* the sum of the decimal digits of n
RECURSIVE DigitSum(_)
DigitSum(n) == IF n < 10 THEN n ELSE (n % 10) + DigitSum(n \div 10)

\* the key of getDailyQuote: the year (4 digits), the month padded to 2 and
\* the day padded to 2; the sum of its digits
KeyDigitSum(date) == DigitSum(date.y) + DigitSum(date.m) + DigitSum(date.d)

\* the selector with the month and the day left out of the key
getDailyQuoteByYear(date) == (4 * 48 + DigitSum(date.y)) % QuoteCount

\* getDailyQuote(): the sum of the key's character codes ('0' is 48), modulo
\* the number of quotes
getDailyQuote(date) == (8 * 48 + KeyDigitSum(date)) % QuoteCount

(* ---------------------------- legacy dates ---------------------------- *)
\* a date in the older ISO format (the string contains 'T') is modelled by a
\* negative number that names its instant
Legacy(instant) == 0 - (instant + 1)

\* d.includes('T')
IsLegacy(d) == d < 0

\* formatLocalDate of a legacy date that parses to no valid Date
formatLocalDateInvalid(d) == Null

\* formatLocalDate(new Date(d)) of a legacy date: the local day of its instant
formatLocalDate(d) == todayKey((0 - d) - 1)

(* ------------------------- date keys as strings ----------------------- *)
\* an instant is a number of clock readings since 2024-01-01T00:00Z; a device
\* is offset readings ahead of UTC (behind when negative).  The Date fields
\* the local getters (getFullYear, getMonth, getDate) read are those of the
\* day number of instant + offset; toISOString reads those of the instant.
getLocalDay(instant, offset) == ((instant + offset) \div TicksPerDay) + 1
toISODay(instant) == (instant \div TicksPerDay) + 1

\* String(n) of a digit, and of a number
Digit(n) == <<"0", "1", "2", "3", "4", "5", "6", "7", "8", "9">>[n + 1]
RECURSIVE DecimalString(_)
DecimalString(n) == IF n < 10 THEN <<Digit(n)>> ELSE DecimalString(n \div 10) \o <<Digit(n % 10)>>

\* s.padStart(2, '0')
padStart2(s) == IF Len(s) < 2 THEN <<"0">> \o s ELSE s

\* `${y}-${m}-${d}` of the fields of a date, month and day padded
keyString(date) ==
    DecimalString(date.y) \o <<"-">> \o padStart2(DecimalString(date.m))
        \o <<"-">> \o padStart2(DecimalString(date.d))

\* todayKey as first written (lines 14-17): date.toISOString().slice(0,10)
todayKeyStringV1(instant, offset) == keyString(DateOfDay(toISODay(instant)))

\* todayKey(date) as a string, for a Date of this instant on a device with
\* this offset
todayKeyString(instant, offset) == keyString(DateOfDay(getLocalDay(instant, offset)))

\* formatLocalDate(date) as a string, for a valid Date
formatLocalDateString(instant, offset) == keyString(DateOfDay(getLocalDay(instant, offset)))

\* the text taken without trim()
noTrim(s) == s

\* String.prototype.trim, from the left and from the right
RECURSIVE TrimStart(_)
TrimStart(s) == IF s # <<>> /\ Head(s) = " " THEN TrimStart(Tail(s)) ELSE s
RECURSIVE TrimEnd(_)
TrimEnd(s) == IF s # <<>> /\ s[Len(s)] = " " THEN TrimEnd(SubSeq(s, 1, Len(s) - 1)) ELSE s
\* text.trim()
trim(s) == TrimEnd(TrimStart(s))

DefaultAppTitle == <<"L", "e", "g", "a", "c", "y", " ", "A", "r", "c">>

\* the state loadState builds when there is no usable record
FreshState == [appTitle |-> DefaultAppTitle, title |-> <<>>, tasks |-> <<>>, theme |-> "light"]

\* an item that is not JSON text: JSON.parse throws on it
Unparsable == [raw |-> "{"]

\* JSON.parse returns for this item
Parses(item) == "tasks" \in DOMAIN item

\* why loadState would build the fresh state from this store, "" if it would not
Unusable(store) ==
    IF store = <<>> THEN "Absent" ELSE IF Parses(store[1]) THEN "" ELSE "Unparsable"

\* loadState as first written (lines 18-22): its fresh state had no appTitle
loadOfV1(store) ==
    IF Unusable(store) # "" THEN [FreshState EXCEPT !.appTitle = <<>>] ELSE store[1]

\* loadState() on a store: the fresh state when there is no item or
\* JSON.parse throws, else what JSON.parse returns
loadOf(store) ==
    IF Unusable(store) # "" THEN FreshState ELSE store[1]

\* loadState()
loadState == loadOf(storage)

\* JSON.stringify of a task: the values of its members id, text, completed,
\* createdAt and completedAt, in the order the object got them; a string, a
\* boolean and null are written as themselves
stringifyTask(t) == <<t.id, t.text, t.completed, t.createdAt, t.completedAt>>

\* JSON.stringify(state): the values of the members appTitle, title, tasks and
\* theme, the tasks as an array in the order of the collection
stringify(state) ==
    <<state.appTitle, state.title,
      [i \in 1 .. Len(state.tasks) |-> stringifyTask(state.tasks[i])],
      state.theme>>

\* JSON.parse of the text of a task and of a state
parseTask(json) ==
    [id |-> json[1], text |-> json[2], completed |-> json[3],
     createdAt |-> json[4], completedAt |-> json[5]]

parse(json) ==
    [appTitle |-> json[1], title |-> json[2],
     tasks |-> [i \in 1 .. Len(json[3]) |-> parseTask(json[3][i])],
     theme |-> json[4]]

\* saveState(state): the item localStorage holds afterwards, as JSON.parse
\* reads it
saved(state) == <<parse(stringify(state))>>

\* applyTheme that saves a state it builds instead of the one it loads
applyThemeNoLoad(store, theme) == saved([FreshState EXCEPT !.theme = theme])

\* applyTheme(theme): load, set theme, save
applyTheme(store, theme) == saved([loadOf(store) EXCEPT !.theme = theme])

(* --------------------------- array helpers ---------------------------- *)
\* Array.prototype.find: the index of the first task with this id, 0 if none
FindIdx(tasks, id) ==
    IF \E i \in 1 .. Len(tasks) : tasks[i].id = id
    THEN CHOOSE i \in 1 .. Len(tasks) :
            tasks[i].id = id /\ \A j \in 1 .. (i - 1) : tasks[j].id # id
    ELSE 0

(* ------------------------- home page: pure parts ---------------------- *)
\* initTodos: legacy dates of the loaded tasks are converted in memory
normalizeTasks(tasks) ==
    [i \in 1 .. Len(tasks) |->
        [tasks[i] EXCEPT
            !.createdAt = IF IsLegacy(@) THEN formatLocalDate(@) ELSE @,
            !.completedAt = IF IsLegacy(@) THEN formatLocalDate(@) ELSE @]]

\* a new task born with the completion date the first version gave on a check
newTaskStamped(text, now) ==
    [id |-> now, text |-> text, completed |-> FALSE,
     createdAt |-> todayKey(now), completedAt |-> todayKey(now)]

\* a new task dated by the UTC day (todayKey as first written, lines 14-17) on
\* a device one clock reading behind UTC
newTaskUTC(text, now) ==
    [id |-> now, text |-> text, completed |-> FALSE,
     createdAt |-> todayKey(now + 1), completedAt |-> Null]

\* the record the task form's submit handler builds
newTask(text, now) ==
    [id |-> now, text |-> text, completed |-> FALSE,
     createdAt |-> todayKey(now), completedAt |-> Null]

\* the new task put at the end: state.tasks.push(newTask)
push(tasks, t) == Append(tasks, t)

\* state.tasks.unshift(newTask)
unshift(tasks, t) == <<t>> \o tasks

\* render() without the filter on createdAt
todaysTasksAll(tasks, day) == tasks

\* state.tasks.filter(t => t.createdAt === todayKey())
todaysTasks(tasks, day) == SelectSeq(tasks, LAMBDA t : t.createdAt = day)

\* render(): the ids of the list items it creates
renderIds(tasks, day) ==
    LET tt == todaysTasks(tasks, day) IN [i \in 1 .. Len(tt) |-> tt[i].id]

\* render(): whether it displays the Save Day button
saveDayShown(tasks, day) ==
    LET tt == todaysTasks(tasks, day)
    IN  Len(tt) > 0 /\ \A i \in 1 .. Len(tt) : tt[i].completed

\* the checkbox branch of the task list's click handler as first written
\* (lines 203-212): it stamped completedAt on every toggle
toggleHomeV1(tasks, id, day) ==
    LET i == FindIdx(tasks, id)
    IN  IF i = 0 THEN tasks
        ELSE [tasks EXCEPT ![i] = [@ EXCEPT !.completed = ~tasks[i].completed,
                                            !.completedAt = IF ~tasks[i].completed
                                                            THEN day ELSE Null]]

\* the checkbox branch of the task list's click handler
toggleHome(tasks, id, day) ==
    LET i == FindIdx(tasks, id)
    IN  IF i = 0 THEN tasks
        ELSE [tasks EXCEPT ![i].completed = ~tasks[i].completed]

\* delete that only hides the task: it clears completed and keeps the record
deleteTaskSoft(tasks, id) ==
    [i \in 1 .. Len(tasks) |->
        IF tasks[i].id = id THEN [tasks[i] EXCEPT !.completed = FALSE] ELSE tasks[i]]

\* delete with the test inverted: filter(t => t.id === id)
deleteTaskInverted(tasks, id) == SelectSeq(tasks, LAMBDA t : t.id = id)

\* delete that spares a task with a completion date
deleteTaskUnlessStamped(tasks, id) ==
    SelectSeq(tasks, LAMBDA t : t.id # id \/ t.completedAt # Null)

\* the delete branch: state.tasks.filter(t => t.id !== id)
deleteTask(tasks, id) == SelectSeq(tasks, LAMBDA t : t.id # id)

\* Save Day without the filter on createdAt: every checked task is stamped
finalizeDayAnyDay(tasks, day) ==
    [i \in 1 .. Len(tasks) |->
        IF tasks[i].completed
        THEN [tasks[i] EXCEPT !.completedAt = day]
        ELSE tasks[i]]

\* Save Day switching the stamp instead of setting it
finalizeDaySwitch(tasks, day) ==
    [i \in 1 .. Len(tasks) |->
        IF tasks[i].createdAt = day /\ tasks[i].completed
        THEN [tasks[i] EXCEPT !.completedAt = IF tasks[i].completedAt = Null THEN day ELSE Null]
        ELSE tasks[i]]

\* the Save Day handler's loop over today's tasks
finalizeDay(tasks, day) ==
    [i \in 1 .. Len(tasks) |->
        IF tasks[i].createdAt = day /\ tasks[i].completed
        THEN [tasks[i] EXCEPT !.completedAt = day]
        ELSE tasks[i]]

(* ----------------------- calendar page: pure parts -------------------- *)
\* initCalendar: new Set(state.tasks.filter(t => t.completedAt).map(t => t.completedAt))
doneDates(tasks) ==
    {tasks[i].completedAt : i \in {j \in 1 .. Len(tasks) : tasks[j].completedAt # Null}}

\* daysConsistent counted per task instead of per date
daysConsistentPerTask(tasks) ==
    Cardinality({i \in 1 .. Len(tasks) : tasks[i].completedAt # Null})

\* initCalendar: daysConsistent = doneDates.size
daysConsistent(tasks) == Cardinality(doneDates(tasks))

\* the days the statistics range over, and getFullYear() of a day: years are
\* numbered from 0 and have YearLen days
StatDays == 1 .. (YearLen * StatYears)
yearOf(day) == (day - 1) \div YearLen

\* a streak that is let start yesterday when today is not done
RECURSIVE runBack(_, _)
runBack(done, d) == IF d \in done THEN 1 + runBack(done, d - 1) ELSE 0
currentStreakFromYesterday(done, d) ==
    IF d \in done THEN runBack(done, d) ELSE runBack(done, d - 1)

\* initCalendar: isDone(dateObj), doneDates.has(formatLocalDate(dateObj))
isDone(done, d) == d \in done

\* the walk's step without the move: d.setDate(d.getDate())
sameDay(d) == d

\* the walk's step: d.setDate(d.getDate() - 1)
previousDay(d) == d - 1

\* initCalendar: the current streak loop, d walking back from today
RECURSIVE currentStreak(_, _)
currentStreak(done, d) ==
    IF d \in done THEN 1 + currentStreak(done, d - 1) ELSE 0

\* the time of day of a Date built or moved to local midnight of a day: a
\* local midnight that a clock change skips (day = gap) resolves to the first
\* later time that exists, and setDate keeps the time of day from then on;
\* 0 is midnight, 1 is later
timeOfDay(day, late, gap) == IF day = gap THEN 1 ELSE late

\* initCalendar: the longest streak loop from dt to end (dt <= end compares
\* instants), with the running counter temp
RECURSIVE longestFrom(_, _, _, _, _, _, _)
longestFrom(done, day, late, endDay, gap, temp, longest) ==
    IF day > endDay \/ (day = endDay /\ late > timeOfDay(endDay, 0, gap))
    THEN longest
    ELSE LET t == IF day \in done THEN temp + 1 ELSE 0
             l == IF t > longest THEN t ELSE longest
         IN  longestFrom(done, day + 1, timeOfDay(day + 1, late, gap), endDay, gap, t, l)

\* initCalendar: longest, over Jan 1 .. Dec 31 of the year; gap is the day
\* whose local midnight the device's time zone skips, 0 if it skips none
longestStreak(done, year, gap) ==
    LET start == (year * YearLen) + 1
        end == (year + 1) * YearLen
    IN  longestFrom(done, start, timeOfDay(start, 0, gap), end, gap, 0, 0)

\* what initCalendar computes from the tasks on a day; the longest streak is
\* kept for every time zone (every gap)
Stats(tasks, day) ==
    [tasks |-> tasks,
     today |-> day,
     doneDates |-> doneDates(tasks),
     daysConsistent |-> daysConsistent(tasks),
     currentStreak |-> currentStreak(doneDates(tasks), day),
     longestStreak |-> [gap \in {0} \cup StatDays |->
                           longestStreak(doneDates(tasks), yearOf(day), gap)]]

\* buildTasksHtml without its filter: every stored task is listed
buildTasksHtmlAll(tasks, dateKey) ==
    [i \in 1 .. Len(tasks) |-> [id |-> tasks[i].id, checked |-> tasks[i].completed]]

\* buildTasksHtml(dateKey): one checkbox per listed task, in stored order
buildTasksHtml(tasks, dateKey) ==
    LET tt == SelectSeq(tasks, LAMBDA t : t.createdAt = dateKey \/ t.completedAt = dateKey)
    IN  [i \in 1 .. Len(tt) |-> [id |-> tt[i].id, checked |-> tt[i].completed]]

\* the modal-checkbox branch as first written (lines 438-448): the completion
\* is attributed to today whatever date the panel shows
toggleCalV1(tasks, id, checked, viewDate, day) ==
    LET i == FindIdx(tasks, id)
    IN  IF i = 0 THEN tasks
        ELSE [tasks EXCEPT ![i] =
                [@ EXCEPT !.completed = checked,
                          !.completedAt = IF checked THEN day ELSE Null]]

\* the modal-checkbox branch without the test of viewDate
toggleCalAnyDate(tasks, id, checked, viewDate, day) ==
    LET i == FindIdx(tasks, id)
    IN  IF i = 0 THEN tasks
        ELSE [tasks EXCEPT ![i] =
                [@ EXCEPT !.completed = checked,
                          !.completedAt = IF checked THEN viewDate ELSE Null]]

\* the modal-checkbox branch of the document click handler
toggleCal(tasks, id, checked, viewDate, day) ==
    LET i == FindIdx(tasks, id)
    IN  IF i = 0 THEN tasks
        ELSE [tasks EXCEPT ![i] =
                [@ EXCEPT !.completed = checked,
                          !.completedAt = IF viewDate # day
                                          THEN (IF checked THEN viewDate ELSE Null)
                                          ELSE tasks[i].completedAt]]

(* ------------------------------- inputs ------------------------------- *)
\* what the user may have typed into the task input
TaskInputs == {<<>>, <<" ">>, <<"a">>, <<" ", "a", " ">>}
\* what the user may have typed into the list title
TitleInputs == {<<"t", " ">>}
\* what the user may have typed into the app title editor
AppTitleInputs == {<<" ">>}

(* -------------------------------- Init -------------------------------- *)
\* first visit: nothing stored, no page open
Init ==
    /\ clock = 0
    /\ storage = <<>>
    /\ hOpen = FALSE
    /\ hState = FreshState
    /\ hView = <<>>
    /\ hSaveBtn = FALSE
    /\ hTimers = <<>>
    /\ cOpen = FALSE
    /\ cPanel = <<>>
    /\ last = "none"
    /\ hQuote = <<>>
    /\ sample = <<>>

(* ------------------------------ the clock ----------------------------- *)
\* time passes
Advance ==
    /\ clock < MaxClock
    /\ clock' = clock + 1
    /\ last' = "none"
    /\ UNCHANGED <<storage, hOpen, hState, hView, hSaveBtn, hTimers, cOpen, cPanel, hQuote, sample>>

(* ------------------------------ home page ----------------------------- *)
\* DOMContentLoaded on the home page: initTodos()
InitTodos ==
    /\ ~hOpen
    /\ hOpen' = TRUE
    /\ hState' = [loadState EXCEPT !.tasks = normalizeTasks(loadState.tasks)]
    /\ storage' = applyTheme(storage, loadState.theme)
    /\ hQuote' = <<getDailyQuote(DateOfDay(today))>>
    /\ hView' = renderIds(hState'.tasks, today)
    /\ hSaveBtn' = saveDayShown(hState'.tasks, today)
    /\ hTimers' = <<today + 1>>
    /\ last' = IF Unusable(storage) # "" THEN "InitTodos" \o Unusable(storage) ELSE "none"
    /\ UNCHANGED <<clock, cOpen, cPanel, sample>>

\* the page is closed or left: its memory, DOM and timers are gone
CloseHome ==
    /\ hOpen
    /\ hOpen' = FALSE
    /\ hState' = FreshState
    /\ hView' = <<>>
    /\ hSaveBtn' = FALSE
    /\ hTimers' = <<>>
    /\ hQuote' = <<>>
    /\ last' = "none"
    /\ UNCHANGED <<clock, storage, cOpen, cPanel, sample>>

\* taskForm submit
CreateTask(input) ==
    /\ hOpen
    /\ LET text == trim(input) IN
       IF text = <<>>
       THEN /\ last' = "CreateRejected"
            /\ UNCHANGED <<storage, hState, hView, hSaveBtn>>
       ELSE /\ Len(hState.tasks) < MaxTasks
            /\ hState' = [hState EXCEPT !.tasks = unshift(hState.tasks, newTask(text, clock))]
            /\ storage' = saved(hState')
            /\ hView' = renderIds(hState'.tasks, today)
            /\ hSaveBtn' = saveDayShown(hState'.tasks, today)
            /\ last' = "CreateTask"
    /\ UNCHANGED <<clock, hOpen, hTimers, cOpen, cPanel, hQuote, sample>>

\* the checkbox branch saving before it toggles
HomeToggleSaveFirst(id) ==
    /\ hOpen
    /\ \E i \in 1 .. Len(hView) : hView[i] = id
    /\ IF FindIdx(hState.tasks, id) = 0
       THEN /\ last' = "HomeToggleMiss"
            /\ UNCHANGED <<storage, hState, hView, hSaveBtn>>
       ELSE /\ hState' = [hState EXCEPT !.tasks = toggleHome(hState.tasks, id, today)]
            /\ storage' = saved(hState)
            /\ hView' = renderIds(hState'.tasks, today)
            /\ hSaveBtn' = saveDayShown(hState'.tasks, today)
            /\ last' = "HomeToggle"
    /\ UNCHANGED <<clock, hOpen, hTimers, cOpen, cPanel, hQuote, sample>>

\* taskList click on the checkbox of a rendered item
HomeToggle(id) ==
    /\ hOpen
    /\ \E i \in 1 .. Len(hView) : hView[i] = id
    /\ IF FindIdx(hState.tasks, id) = 0
       THEN /\ last' = "HomeToggleMiss"
            /\ UNCHANGED <<storage, hState, hView, hSaveBtn>>
       ELSE /\ hState' = [hState EXCEPT !.tasks = toggleHome(hState.tasks, id, today)]
            /\ storage' = saved(hState')
            /\ hView' = renderIds(hState'.tasks, today)
            /\ hSaveBtn' = saveDayShown(hState'.tasks, today)
            /\ last' = "HomeToggle"
    /\ UNCHANGED <<clock, hOpen, hTimers, cOpen, cPanel, hQuote, sample>>

\* taskList click on the delete button of a rendered item
HomeDelete(id) ==
    /\ hOpen
    /\ \E i \in 1 .. Len(hView) : hView[i] = id
    /\ hState' = [hState EXCEPT !.tasks = deleteTask(hState.tasks, id)]
    /\ storage' = saved(hState')
    /\ hView' = renderIds(hState'.tasks, today)
    /\ hSaveBtn' = saveDayShown(hState'.tasks, today)
    /\ last' = "HomeDelete"
    /\ UNCHANGED <<clock, hOpen, hTimers, cOpen, cPanel, hQuote, sample>>

\* saveDayBtn click; the button takes clicks only while render() displays it
SaveDay ==
    /\ hOpen
    /\ hSaveBtn
    /\ hState' = [hState EXCEPT !.tasks = finalizeDay(hState.tasks, today)]
    /\ storage' = saved(hState')
    /\ hView' = renderIds(hState'.tasks, today)
    /\ hSaveBtn' = saveDayShown(hState'.tasks, today)
    /\ last' = "SaveDay"
    /\ UNCHANGED <<clock, hOpen, hTimers, cOpen, cPanel, hQuote, sample>>

\* titleForm submit
SaveTitle(input) ==
    /\ hOpen
    /\ hState' = [hState EXCEPT !.title = trim(input)]
    /\ storage' = saved(hState')
    /\ last' = "none"
    /\ UNCHANGED <<clock, hOpen, hView, hSaveBtn, hTimers, cOpen, cPanel, hQuote, sample>>

\* the app title editor's saveTitle (blur or Enter)
SaveAppTitle(input) ==
    /\ hOpen
    /\ hState' = [hState EXCEPT !.appTitle = IF trim(input) = <<>> THEN DefaultAppTitle
                                              ELSE trim(input)]
    /\ storage' = saved(hState')
    /\ last' = "none"
    /\ UNCHANGED <<clock, hOpen, hView, hSaveBtn, hTimers, cOpen, cPanel, hQuote, sample>>

\* toggleTheme(), from the theme button of either page
ToggleTheme ==
    /\ hOpen \/ cOpen
    /\ storage' = applyTheme(storage, IF loadState.theme = "dark" THEN "light" ELSE "dark")
    /\ last' = "none"
    /\ UNCHANGED <<clock, hOpen, hState, hView, hSaveBtn, hTimers, cOpen, cPanel, hQuote, sample>>

\* the timeout's callback without its call of scheduleMidnightRefresh
MidnightRefreshOnce(k) ==
    /\ hOpen
    /\ k \in 1 .. Len(hTimers)
    /\ hTimers[k] <= today
    /\ hView' = renderIds(hState.tasks, today)
    /\ hSaveBtn' = saveDayShown(hState.tasks, today)
    /\ hTimers' = SelectSeq(hTimers, LAMBDA d : d # hTimers[k])
    /\ \E grid \in BOOLEAN :
          /\ storage' = IF grid THEN applyTheme(storage, loadState.theme) ELSE storage
          /\ last' = IF grid THEN "RefreshCalendar" ELSE "none"
    /\ UNCHANGED <<clock, hOpen, hState, cOpen, cPanel, hQuote, sample>>

\* a timeout of scheduleMidnightRefresh comes due: render(), then initCalendar()
\* when the document holds the year grid (grid), then re-arm; initCalendar
\* derives its statistics from loadState() and ends with
\* applyTheme(state.theme || 'light')
MidnightRefresh(k) ==
    /\ hOpen
    /\ k \in 1 .. Len(hTimers)
    /\ hTimers[k] <= today
    /\ hView' = renderIds(hState.tasks, today)
    /\ hSaveBtn' = saveDayShown(hState.tasks, today)
    /\ hTimers' = [j \in 1 .. Len(hTimers) |-> IF j = k THEN today + 1 ELSE hTimers[j]]
    /\ \E grid \in BOOLEAN :
          /\ storage' = IF grid THEN applyTheme(storage, loadState.theme) ELSE storage
          /\ last' = IF grid THEN "RefreshCalendar" ELSE "none"
    /\ UNCHANGED <<clock, hOpen, hState, cOpen, cPanel, hQuote, sample>>

(* ---------------------------- calendar page --------------------------- *)
\* DOMContentLoaded on the calendar page: initCalendar()
InitCalendar ==
    /\ ~cOpen
    /\ cOpen' = TRUE
    /\ cPanel' = <<>>
    /\ storage' = applyTheme(storage, loadState.theme)
    /\ last' = IF Unusable(storage) # "" THEN "InitCalendar" \o Unusable(storage) ELSE "none"
    /\ UNCHANGED <<clock, hOpen, hState, hView, hSaveBtn, hTimers, hQuote, sample>>

\* the page is closed or left
CloseCalendar ==
    /\ cOpen
    /\ cOpen' = FALSE
    /\ cPanel' = <<>>
    /\ last' = "none"
    /\ UNCHANGED <<clock, storage, hOpen, hState, hView, hSaveBtn, hTimers, hQuote, sample>>

\* click on a day of the year grid: openInlinePanel(dateKey, day)
OpenInlinePanel(dateKey) ==
    /\ cOpen
    /\ cPanel' = <<[date |-> dateKey, boxes |-> buildTasksHtml(loadState.tasks, dateKey)]>>
    /\ last' = "none"
    /\ UNCHANGED <<clock, storage, hOpen, hState, hView, hSaveBtn, hTimers, cOpen, hQuote, sample>>

\* closeInlinePanel(), by the close button, Escape or a click outside
CloseInlinePanel ==
    /\ cOpen
    /\ cPanel # <<>>
    /\ cPanel' = <<>>
    /\ last' = "none"
    /\ UNCHANGED <<clock, storage, hOpen, hState, hView, hSaveBtn, hTimers, cOpen, hQuote, sample>>

\* click on the k-th checkbox of the open panel: the browser flips the box,
\* then the document click handler runs with e.target.checked; the panel
\* stays open (closePopup and closeModal do not touch currentInline)
CalToggle(k) ==
    /\ cOpen
    /\ cPanel # <<>>
    /\ k \in 1 .. Len(cPanel[1].boxes)
    /\ LET box == cPanel[1].boxes[k]
           checked == ~box.checked
           viewDate == cPanel[1].date
       IN  /\ cPanel' = <<[cPanel[1] EXCEPT !.boxes[k].checked = checked]>>
           /\ IF FindIdx(loadState.tasks, box.id) = 0
              THEN /\ last' = "CalToggleMiss"
                   /\ UNCHANGED storage
              ELSE /\ last' = "CalToggle"
                   /\ storage' = applyTheme(
                         saved([loadState EXCEPT
                            !.tasks = toggleCal(loadState.tasks, box.id, checked, viewDate, today)]),
                         loadState.theme)
    /\ UNCHANGED <<clock, hOpen, hState, hView, hSaveBtn, hTimers, cOpen, hQuote, sample>>

\* click on the k-th Delete button of the open panel
CalDelete(k) ==
    /\ cOpen
    /\ cPanel # <<>>
    /\ k \in 1 .. Len(cPanel[1].boxes)
    /\ LET id == cPanel[1].boxes[k].id
       IN  /\ storage' = applyTheme(
                   saved([loadState EXCEPT !.tasks = deleteTask(loadState.tasks, id)]),
                   loadState.theme)
           /\ last' = IF FindIdx(loadState.tasks, id) = 0 THEN "CalDeleteMiss" ELSE "CalDelete"
    /\ UNCHANGED <<clock, hOpen, hState, hView, hSaveBtn, hTimers, cOpen, cPanel, hQuote, sample>>

(* -------------------------------- Next -------------------------------- *)
\* the task operations of the two pages, page loads and the clock
Next ==
    \/ Advance
    \/ InitTodos
    \/ CloseHome
    \/ \E input \in TaskInputs : CreateTask(input)
    \/ \E id \in 0 .. MaxClock : HomeToggle(id)
    \/ \E id \in 0 .. MaxClock : HomeDelete(id)
    \/ SaveDay
    \/ \E k \in 1 .. MaxTasks : MidnightRefresh(k)
    \/ InitCalendar
    \/ CloseCalendar
    \/ \E d \in Days : OpenInlinePanel(d)
    \/ CloseInlinePanel
    \/ \E k \in 1 .. MaxTasks : CalToggle(k)
    \/ \E k \in 1 .. MaxTasks : CalDelete(k)

Spec == Init /\ [][Next]_vars

\* the same with the theme button and the two title editors
NextAll ==
    \/ Next
    \/ ToggleTheme
    \/ \E input \in TitleInputs : SaveTitle(input)
    \/ \E input \in AppTitleInputs : SaveAppTitle(input)

SpecAll == Init /\ [][NextAll]_vars

(* ------------------------- a store with legacy data ------------------- *)
\* a task an older version stored with ISO date strings, made at instant 0
LegacyTask(completed) ==
    [id |-> 0, text |-> <<"a">>, completed |-> completed,
     createdAt |-> Legacy(0),
     completedAt |-> IF completed THEN Legacy(0) ELSE Null]

\* a later visit: the store holds a legacy task, no page is open
InitLegacy ==
    /\ clock = 1
    /\ \E completed \in BOOLEAN :
          storage = saved([FreshState EXCEPT !.tasks = <<LegacyTask(completed)>>])
    /\ hOpen = FALSE
    /\ hState = FreshState
    /\ hView = <<>>
    /\ hSaveBtn = FALSE
    /\ hTimers = <<>>
    /\ cOpen = FALSE
    /\ cPanel = <<>>
    /\ last = "none"
    /\ hQuote = <<>>
    /\ sample = <<>>

SpecLegacy == InitLegacy /\ [][NextAll]_vars

(* ---------------------- a store that cannot be used ------------------ *)
\* a visit with no item stored or with an item that is not JSON text
InitCorrupt ==
    /\ clock = 0
    /\ storage \in {<<>>, <<Unparsable>>}
    /\ hOpen = FALSE
    /\ hState = FreshState
    /\ hView = <<>>
    /\ hSaveBtn = FALSE
    /\ hTimers = <<>>
    /\ cOpen = FALSE
    /\ cPanel = <<>>
    /\ last = "none"
    /\ hQuote = <<>>
    /\ sample = <<>>

SpecCorrupt == InitCorrupt /\ [][Next]_vars

(* ------------------------------ the date keys ------------------------- *)
\* the offsets of the devices: up to one reading short of a day, either way
KeyOffsets == (1 - TicksPerDay) .. (TicksPerDay - 1)

\* the keys the two functions give at an instant on a device
KeysAt(instant, offset) ==
    [instant |-> instant, offset |-> offset,
     todayKey |-> todayKeyString(instant, offset),
     formatLocalDate |-> formatLocalDateString(instant, offset)]

\* a device of any offset, at the first instant that is in 2024 on all of them
InitKey ==
    /\ clock = 0
    /\ storage = <<>>
    /\ hOpen = FALSE
    /\ hState = FreshState
    /\ hView = <<>>
    /\ hSaveBtn = FALSE
    /\ hTimers = <<>>
    /\ cOpen = FALSE
    /\ cPanel = <<>>
    /\ last = "none"
    /\ hQuote = <<>>
    /\ \E offset \in KeyOffsets : sample = KeysAt(TicksPerDay - 1, offset)

\* the keys again, one clock reading later
KeyLater ==
    /\ sample # <<>>
    /\ sample.instant < MaxKeyInstant
    /\ sample' = KeysAt(sample.instant + 1, sample.offset)
    /\ UNCHANGED <<clock, storage, hOpen, hState, hView, hSaveBtn, hTimers, cOpen, cPanel,
                   last, hQuote>>

NextKey == KeyLater

SpecKey == InitKey /\ [][NextKey]_vars

(* ------------------------------ the daily quote ----------------------- *)
\* getDailyQuote() at an instant (a calendar date and a time of day): the
\* instant, the index selected, and the indices selected so far in the year
QuoteAt(date, tick, seen) ==
    [date |-> date, tick |-> tick, index |-> getDailyQuote(date),
     seen |-> seen \cup {getDailyQuote(date)}]

\* the selector on the first day
InitQuote ==
    /\ clock = 0
    /\ storage = <<>>
    /\ hOpen = FALSE
    /\ hState = FreshState
    /\ hView = <<>>
    /\ hSaveBtn = FALSE
    /\ hTimers = <<>>
    /\ cOpen = FALSE
    /\ cPanel = <<>>
    /\ last = "none"
    /\ hQuote = <<>>
    /\ sample = QuoteAt(FirstDate, 0, {})

\* the selector again, later on the same date
QuoteLater ==
    /\ sample # <<>>
    /\ sample.tick + 1 < TicksPerDay
    /\ sample' = QuoteAt(sample.date, sample.tick + 1, sample.seen)
    /\ UNCHANGED <<clock, storage, hOpen, hState, hView, hSaveBtn, hTimers, cOpen, cPanel,
                   last, hQuote>>

\* the selector on the next calendar date
QuoteNextDay ==
    /\ sample # <<>>
    /\ NextDate(sample.date).y < FirstDate.y + QuoteYears
    /\ sample' = QuoteAt(NextDate(sample.date), 0,
                         IF NextDate(sample.date).y = sample.date.y THEN sample.seen ELSE {})
    /\ UNCHANGED <<clock, storage, hOpen, hState, hView, hSaveBtn, hTimers, cOpen, cPanel,
                   last, hQuote>>

NextQuote == QuoteLater \/ QuoteNextDay

SpecQuote == InitQuote /\ [][NextQuote]_vars

(* ------------------------ the calendar's statistics ------------------- *)
\* the statistics of an empty collection, on any day
InitStats ==
    /\ clock = 0
    /\ storage = <<>>
    /\ hOpen = FALSE
    /\ hState = FreshState
    /\ hView = <<>>
    /\ hSaveBtn = FALSE
    /\ hTimers = <<>>
    /\ cOpen = FALSE
    /\ cPanel = <<>>
    /\ last = "none"
    /\ hQuote = <<>>
    /\ \E day \in StatDays : sample = Stats(<<>>, day)

\* one more task in the collection, without or with a completion date, and
\* the statistics of the collection
AddStatTask(c) ==
    /\ sample # <<>>
    /\ Len(sample.tasks) < StatTasks
    /\ sample' = Stats(Append(sample.tasks,
                              [id |-> Len(sample.tasks), text |-> <<"a">>,
                               completed |-> c # Null,
                               createdAt |-> IF c = Null THEN sample.today ELSE c,
                               completedAt |-> c]),
                       sample.today)
    /\ UNCHANGED <<clock, storage, hOpen, hState, hView, hSaveBtn, hTimers, cOpen, cPanel,
                   last, hQuote>>

NextStats == \E c \in {Null} \cup StatDays : AddStatTask(c)

SpecStats == InitStats /\ [][NextStats]_vars

(* ----------------------- the current streak's walk -------------------- *)
\* the days the walk is followed over: a year and the first days of the next
WalkDays == 1 .. (YearLen + 2)

\* a collection of tasks with these completion dates
WalkCollection(cs) ==
    [i \in 1 .. Len(cs) |->
        [id |-> i, text |-> <<"a">>, completed |-> cs[i] # Null,
         createdAt |-> IF cs[i] = Null THEN 1 ELSE cs[i], completedAt |-> cs[i]]]

\* initCalendar on any day, over any collection, before the loop's first
\* test: streak = 0, d = new Date()
InitWalk ==
    /\ clock = 0
    /\ storage = <<>>
    /\ hOpen = FALSE
    /\ hState = FreshState
    /\ hView = <<>>
    /\ hSaveBtn = FALSE
    /\ hTimers = <<>>
    /\ cOpen = FALSE
    /\ cPanel = <<>>
    /\ last = "none"
    /\ hQuote = <<>>
    /\ \E n \in 0 .. WalkTasks : \E cs \in [1 .. n -> {Null} \cup WalkDays] :
       \E day \in WalkDays :
          sample = [tasks |-> WalkCollection(cs), today |-> day,
                    doneDates |-> doneDates(WalkCollection(cs)),
                    d |-> day, streak |-> 0, visits |-> 0, pc |-> "while"]

\* while (isDone(d)) with a done day: streak++; d.setDate(d.getDate() - 1)
WalkStep ==
    /\ sample.pc = "while"
    /\ sample.visits < MaxVisits
    /\ isDone(sample.doneDates, sample.d)
    /\ sample' = [sample EXCEPT !.streak = @ + 1, !.d = previousDay(@), !.visits = @ + 1]
    /\ UNCHANGED <<clock, storage, hOpen, hState, hView, hSaveBtn, hTimers, cOpen, cPanel,
                   last, hQuote>>

\* while (isDone(d)) with a day that is not done: the loop is left and
\* currentStreakEl.textContent = streak
WalkEnd ==
    /\ sample.pc = "while"
    /\ sample.visits < MaxVisits
    /\ ~isDone(sample.doneDates, sample.d)
    /\ sample' = [sample EXCEPT !.visits = @ + 1, !.pc = "shown"]
    /\ UNCHANGED <<clock, storage, hOpen, hState, hView, hSaveBtn, hTimers, cOpen, cPanel,
                   last, hQuote>>

NextWalk == WalkStep \/ WalkEnd

\* the loop is synchronous code: it runs on while it can
SpecWalk == InitWalk /\ [][NextWalk]_vars /\ WF_vars(NextWalk)

(* -------------------- a home session over several midnights ----------- *)
\* time passes, over MaxTimerClock readings
AdvanceDays ==
    /\ clock < MaxTimerClock
    /\ clock' = clock + 1
    /\ last' = "none"
    /\ UNCHANGED <<storage, hOpen, hState, hView, hSaveBtn, hTimers, cOpen, cPanel, hQuote, sample>>

\* the home page, its task form and its timer
NextTimer ==
    \/ AdvanceDays
    \/ InitTodos
    \/ CloseHome
    \/ \E input \in TaskInputs : CreateTask(input)
    \/ \E k \in 1 .. MaxTasks : MidnightRefresh(k)

\* a timeout that is due is run by the event loop
SpecTimer ==
    Init /\ [][NextTimer]_vars /\ WF_vars(\E k \in 1 .. MaxTasks : MidnightRefresh(k))

(* ------------------------------ properties ---------------------------- *)
\* the completedAt values of a collection, position by position
Stamps(tasks) == [i \in 1 .. Len(tasks) |-> tasks[i].completedAt]

\* C1: in every reachable state every task with completed = FALSE has
\* completedAt absent, in the home session's memory and in the stored record;
\* unchecking a finalized task clears its completedAt.
C1_UncheckedHasNoCompletedAt ==
    \A tasks \in {hState.tasks, loadState.tasks} :
        \A i \in 1 .. Len(tasks) : ~tasks[i].completed => tasks[i].completedAt = Null

C3_PastToggleStampsViewedDate ==
    [][ \A k \in 1 .. MaxTasks :
          (CalToggle(k) /\ cPanel[1].date # today
             /\ FindIdx(loadState.tasks, cPanel[1].boxes[k].id) # 0) =>
             LET i == FindIdx(loadState.tasks, cPanel[1].boxes[k].id)
                 D == cPanel[1].date
                 t == storage'[1].tasks[i]
             IN  /\ t.completed => t.completedAt = D
                 /\ ~t.completed => t.completedAt = Null
      ]_vars

\* C3 witness: a task has just been checked in the panel of a past date and
\* carries that date, not today's
C3_Witness ==
    /\ last = "CalToggle"
    /\ cPanel # <<>>
    /\ cPanel[1].date < today
    /\ \E k \in 1 .. Len(cPanel[1].boxes) :
          LET i == FindIdx(loadState.tasks, cPanel[1].boxes[k].id)
          IN  /\ i # 0
              /\ cPanel[1].boxes[k].checked
              /\ loadState.tasks[i].completed
              /\ loadState.tasks[i].completedAt = cPanel[1].date

\* C4: Save Day is idempotent: in the state one Save Day leaves, a second one
\* on the same day computes the same in-memory collection and writes the same
\* record.
C4_FinalizeIdempotent ==
    last = "SaveDay" =>
        /\ finalizeDay(hState.tasks, today) = hState.tasks
        /\ saved([hState EXCEPT !.tasks = finalizeDay(hState.tasks, today)]) = storage

\* C4 witness: Save Day has just stamped a task, and the button is still shown
C4_Witness ==
    /\ last = "SaveDay"
    /\ hSaveBtn
    /\ \E i \in 1 .. Len(hState.tasks) : hState.tasks[i].completedAt = today

\* C5: Save Day sets completedAt = today for exactly the tasks with
\* createdAt = today and completed = TRUE, never on an unchecked task, and
\* leaves every other task and every id, text, completed and createdAt as
\* they were; the record written is the resulting collection.
C5_FinalizeStampsExactlyTodaysChecked ==
    [][ SaveDay =>
          /\ Len(hState'.tasks) = Len(hState.tasks)
          /\ \A i \in 1 .. Len(hState.tasks) :
                LET old == hState.tasks[i]
                    new == hState'.tasks[i]
                IN  /\ new.id = old.id
                    /\ new.text = old.text
                    /\ new.completed = old.completed
                    /\ new.createdAt = old.createdAt
                    /\ new.completedAt = IF old.createdAt = today /\ old.completed
                                         THEN today ELSE old.completedAt
                    /\ ~old.completed => new.completedAt = old.completedAt
          /\ storage'[1].tasks = hState'.tasks
      ]_vars

\* C5 witness: Save Day has just stamped a task of today while a checked task
\* of another day is in the collection and keeps no stamp
C5_Witness ==
    /\ last = "SaveDay"
    /\ \E i, j \in 1 .. Len(hState.tasks) :
          /\ hState.tasks[i].createdAt = today
          /\ hState.tasks[i].completedAt = today
          /\ hState.tasks[j].createdAt # today
          /\ hState.tasks[j].completed
          /\ hState.tasks[j].completedAt = Null

\* the tasks of a stored value
Stored(store) == IF store = <<>> THEN <<>> ELSE store[1].tasks

\* how many tasks of a collection have this id and this completedAt
StampCount(tasks, id, d) ==
    Cardinality({i \in 1 .. Len(tasks) : tasks[i].id = id /\ tasks[i].completedAt = d})

\* no task of the collection went from no completedAt to a completedAt
NoNewStamp(old, new) ==
    \/ new = old
    \/ \A id \in 0 .. MaxClock : \A d \in Days :
          StampCount(new, id, d) <= StampCount(old, id, d)

\* a handler of the home page that persists the session's memory
HomeWrites ==
    \/ \E input \in TaskInputs : CreateTask(input)
    \/ \E id \in 0 .. MaxClock : HomeToggle(id)
    \/ \E id \in 0 .. MaxClock : HomeDelete(id)
    \/ SaveDay
    \/ \E input \in TitleInputs : SaveTitle(input)
    \/ \E input \in AppTitleInputs : SaveAppTitle(input)

\* a calendar toggle in the panel of a date other than today
PastToggle == \E k \in 1 .. MaxTasks : CalToggle(k) /\ cPanel[1].date # today

IsBlank(input) == \A i \in 1 .. Len(input) : input[i] = " "

\* C7: for every text that is not empty after trimming, createTask adds
\* exactly one task, with createdAt the local day of the creation instant,
\* completed FALSE and completedAt null, and changes no existing task.
C7_CreateAddsOneFreshTask ==
    [][ \A input \in TaskInputs :
          (CreateTask(input) /\ ~IsBlank(input)) =>
             /\ Len(hState'.tasks) = Len(hState.tasks) + 1
             /\ \E p \in 1 .. Len(hState'.tasks) :
                   /\ hState'.tasks[p].createdAt = todayKey(clock)
                   /\ hState'.tasks[p].completed = FALSE
                   /\ hState'.tasks[p].completedAt = Null
                   /\ hState'.tasks[p].text # <<>>
                   /\ ~IsBlank(hState'.tasks[p].text)
                   /\ \A j \in 1 .. Len(hState.tasks) :
                         hState'.tasks[IF j < p THEN j ELSE j + 1] = hState.tasks[j]
             /\ Stored(storage') = hState'.tasks
      ]_vars

\* C7 witness: a task has just been created beside a finalized one
C7_Witness ==
    /\ last = "CreateTask"
    /\ Len(hState.tasks) = 2
    /\ hState.tasks[1].completedAt = Null /\ ~hState.tasks[1].completed
    /\ hState.tasks[2].completedAt # Null

\* C8: createTask with an empty or all-white-space text is a no-op: the
\* in-memory state, the stored record and the rendered list are unchanged.
C8_BlankCreateIsNoOp ==
    [][ \A input \in TaskInputs :
          (IsBlank(input) /\ CreateTask(input)) =>
             /\ hState' = hState
             /\ storage' = storage
             /\ hView' = hView /\ hSaveBtn' = hSaveBtn
      ]_vars

\* C8 witness: a blank submit has just been rejected on a non-empty collection
C8_Witness ==
    /\ last = "CreateRejected"
    /\ Len(hState.tasks) > 0
    /\ Stored(storage) = hState.tasks

\* C9: toggle or delete with an id that matches no task of the collection
\* the handler works on leaves that collection unchanged by value.
C9_UnknownIdIsNoOp ==
    [][ /\ \A k \in 1 .. MaxTasks :
             (CalToggle(k) /\ FindIdx(Stored(storage), cPanel[1].boxes[k].id) = 0) =>
                storage' = storage /\ hState' = hState
        /\ \A k \in 1 .. MaxTasks :
             (CalDelete(k) /\ FindIdx(Stored(storage), cPanel[1].boxes[k].id) = 0) =>
                Stored(storage') = Stored(storage) /\ hState' = hState
        /\ \A id \in 0 .. MaxClock :
             (HomeToggle(id) /\ FindIdx(hState.tasks, id) = 0) =>
                hState' = hState /\ storage' = storage
        /\ \A id \in 0 .. MaxClock :
             (HomeDelete(id) /\ FindIdx(hState.tasks, id) = 0) =>
                hState'.tasks = hState.tasks
      ]_vars

\* C9 witness: Delete has just been clicked in a panel for a task that is no
\* longer stored, while other tasks are
C9_Witness ==
    /\ last = "CalDeleteMiss"
    /\ Len(Stored(storage)) > 0

\* new is old without the tasks of this id, the others as they were and in
\* their order
Removed(old, new, id) ==
    LET keep == {i \in 1 .. Len(old) : old[i].id # id}
        rank(i) == Cardinality({j \in keep : j <= i})
    IN  /\ Len(new) = Cardinality(keep)
        /\ \A i \in keep : new[rank(i)] = old[i]

\* C10: deleteTask(id) removes the task with that id whatever its
\* completed/completedAt, and every other task stays, unchanged and in the
\* same relative order.
C10_DeleteRemovesOnlyThatId ==
    [][ /\ \A id \in 0 .. MaxClock :
             HomeDelete(id) =>
                /\ Removed(hState.tasks, hState'.tasks, id)
                /\ Stored(storage') = hState'.tasks
        /\ \A k \in 1 .. MaxTasks :
             CalDelete(k) =>
                Removed(Stored(storage), Stored(storage'), cPanel[1].boxes[k].id)
      ]_vars

\* C10 witness: a finalized task has just been deleted in the calendar (its
\* panel still shows it checked) and another task is still stored
C10_Witness ==
    /\ last = "CalDelete"
    /\ Len(Stored(storage)) > 0
    /\ \E k \in 1 .. Len(cPanel[1].boxes) :
          /\ cPanel[1].boxes[k].checked
          /\ FindIdx(Stored(storage), cPanel[1].boxes[k].id) = 0

\* C11: in every reachable state no two tasks of a collection (the home
\* session's, the stored one) have the same id, also when two tasks are
\* created at the same clock reading.
C11_IdsAreUnique ==
    \A tasks \in {hState.tasks, Stored(storage)} :
        \A i, j \in 1 .. Len(tasks) : i # j => tasks[i].id # tasks[j].id

\* a task keeps its id, its text and its createdAt; with exact = FALSE a
\* legacy createdAt may have become the local day of its instant
SameCore(old, new, exact) ==
    /\ new.id = old.id
    /\ new.text = old.text
    /\ \/ new.createdAt = old.createdAt
       \/ /\ ~exact
          /\ IsLegacy(old.createdAt)
          /\ new.createdAt = (((0 - old.createdAt) - 1) \div TicksPerDay) + 1

\* every task of old that is still in new kept its id, text and createdAt:
\* new is old position by position, old behind one new task, or old without
\* the tasks of one id
KeepsCores(old, new, exact) ==
    \/ new = old
    \/ /\ Len(new) = Len(old)
       /\ \A i \in 1 .. Len(old) : SameCore(old[i], new[i], exact)
    \/ /\ Len(new) = Len(old) + 1
       /\ \A i \in 1 .. Len(old) : SameCore(old[i], new[i + 1], exact)
    \/ /\ Len(new) < Len(old)
       /\ \E id \in 0 .. MaxClock :
             LET keep == {i \in 1 .. Len(old) : old[i].id # id}
                 rank(i) == Cardinality({j \in keep : j <= i})
             IN  /\ Len(new) = Cardinality(keep)
                 /\ \A i \in keep : SameCore(old[i], new[rank(i)], exact)

\* the steps of a run keep id, text and createdAt: in the home session's
\* collection, from the stored collection to the one a page load builds, and
\* in the stored collection, where a home handler writes the collection it
\* holds
CoresKept(exactOnLoad) ==
    /\ (hOpen /\ hOpen') => KeepsCores(hState.tasks, hState'.tasks, TRUE)
    /\ (~hOpen /\ hOpen') => KeepsCores(Stored(storage), hState'.tasks, exactOnLoad)
    /\ \/ KeepsCores(Stored(storage), Stored(storage'), TRUE)
       \/ HomeWrites /\ Stored(storage') = hState'.tasks

\* C12 as stated: after a task is created no operation, page initialization
\* included, changes its createdAt, its id or its text.
C12_CoreNeverChanges == [][CoresKept(TRUE)]_vars

\* C12 amended: no operation changes a task's id or text, nor a createdAt
\* that is a local date key; the home page's initialization replaces a
\* legacy-format createdAt, in the session's collection, by the local date
\* key of the same instant, and the next home handler writes it to storage.
C12_CoreChangesOnlyByLegacyConversion == [][CoresKept(FALSE)]_vars

\* C12 witness: the legacy task, loaded and converted by the home page, has
\* just been toggled there and is stored with the local date key
C12_Witness ==
    /\ last = "HomeToggle"
    /\ \E i \in 1 .. Len(Stored(storage)) :
          /\ Stored(storage)[i].id = 0
          /\ Stored(storage)[i].text = <<"a">>
          /\ Stored(storage)[i].createdAt = 1

\* C13: doneDates is the set of the distinct non-null completedAt values of
\* all tasks, of any year, and daysConsistent is the number of its elements,
\* however many tasks share a date.
C13_DaysConsistentCountsDistinctDates ==
    sample # <<>> =>
        LET dates == {d \in StatDays :
                        \E i \in 1 .. Len(sample.tasks) : sample.tasks[i].completedAt = d}
        IN  /\ sample.doneDates = dates
            /\ sample.daysConsistent = Cardinality(dates)
            /\ \A d \in dates : d # Null

\* C13 witness: three tasks share a date of the year before the current one,
\* a fourth has none: daysConsistent is 1
C13_Witness ==
    /\ sample # <<>>
    /\ Len(sample.tasks) = 4
    /\ sample.daysConsistent = 1
    /\ Cardinality({i \in 1 .. 4 : sample.tasks[i].completedAt # Null}) = 3
    /\ \E d \in sample.doneDates : yearOf(d) < yearOf(sample.today)

\* C14: currentStreak is the length of the maximal run of consecutive days
\* that ends at today and lies in doneDates; it is 0 when today is not in
\* doneDates, whatever yesterday is; for {1, 2, 3, 5} and today = 5 it is 1.
C14_CurrentStreakIsRunEndingToday ==
    sample # <<>> =>
        LET done == sample.doneDates
            n == sample.currentStreak
        IN  /\ n >= 0
            /\ \A j \in 0 .. (n - 1) : (sample.today - j) \in done
            /\ (sample.today - n) \notin done
            /\ sample.today \notin done => n = 0
            /\ (done = {1, 2, 3, 5} /\ sample.today = 5) => n = 1

\* C14 witness: the dates of the example, seen on day 5
C14_Witness ==
    /\ sample # <<>>
    /\ sample.doneDates = {1, 2, 3, 5}
    /\ sample.today = 5
    /\ sample.currentStreak = 1

\* the length of the longest run of consecutive days of a year in done
LongestRunInYear(done, year) ==
    LET first == (year * YearLen) + 1
        lastDay == (year + 1) * YearLen
        IsRun(a, n) == a + n - 1 <= lastDay /\ \A d \in a .. (a + n - 1) : d \in done
        lengths == {n \in 0 .. YearLen : n = 0 \/ \E a \in first .. lastDay : IsRun(a, n)}
    IN  CHOOSE n \in lengths : \A k \in lengths : k <= n

\* C15: longestStreak is the length of the longest run of consecutive days
\* within Jan 1 .. Dec 31 of the current year that lie in doneDates, on every
\* device; dates of other years do not change it; for {1, 2, 3, 5} it is 3.
C15_LongestStreakIsLongestRunOfYear ==
    sample # <<>> =>
        \A gap \in {0} \cup StatDays :
            sample.longestStreak[gap] = LongestRunInYear(sample.doneDates, yearOf(sample.today))

\* C15 where the time zone skips no local midnight: the scan gives the longest
\* run of the year, and 3 for the dates of the example
C15_LongestStreakWithoutSkippedMidnight ==
    sample # <<>> =>
        /\ sample.longestStreak[0] = LongestRunInYear(sample.doneDates, yearOf(sample.today))
        /\ (sample.doneDates = {1, 2, 3, 5} /\ yearOf(sample.today) = 0) =>
              sample.longestStreak[0] = 3

\* the task with this id is the only task of the collection with completedAt = X
SoleContributor(tasks, id, X) ==
    /\ X # Null
    /\ \E i \in 1 .. Len(tasks) : tasks[i].id = id /\ tasks[i].completedAt = X
    /\ Cardinality({i \in 1 .. Len(tasks) : tasks[i].completedAt = X}) = 1

\* what the calendar recomputes from new, after the delete of the task id from
\* old: X is gone from doneDates and daysConsistent is one less
DateDropped(old, new, id) ==
    \A X \in Days :
        SoleContributor(old, id, X) =>
            /\ X \notin doneDates(new)
            /\ daysConsistent(new) = daysConsistent(old) - 1

\* C16: when the deleted task is the only one with completedAt = X, the
\* calendar's next recomputation has X not in doneDates (so the day is not
\* marked done) and daysConsistent lower by exactly 1.
C16_DeleteOfSoleContributorDropsDate ==
    [][ /\ \A k \in 1 .. MaxTasks :
             CalDelete(k) =>
                DateDropped(Stored(storage), Stored(storage'), cPanel[1].boxes[k].id)
        /\ \A id \in 0 .. MaxClock :
             HomeDelete(id) => DateDropped(hState.tasks, Stored(storage'), id)
      ]_vars

\* C16 witness: the only task with a completion date has just been deleted in
\* the calendar panel of that date (the home session still holds its copy),
\* another task is left, and doneDates is empty
C16_Witness ==
    /\ last = "CalDelete"
    /\ Len(Stored(storage)) > 0
    /\ doneDates(Stored(storage)) = {}
    /\ cPanel[1].date # today
    /\ \E k \in 1 .. Len(cPanel[1].boxes) :
          /\ cPanel[1].boxes[k].checked
          /\ FindIdx(Stored(storage), cPanel[1].boxes[k].id) = 0
          /\ \E i \in 1 .. Len(hState.tasks) :
                /\ hState.tasks[i].id = cPanel[1].boxes[k].id
                /\ hState.tasks[i].completedAt = cPanel[1].date

\* C17: the quote selector depends on the local date only (selected again
\* later on the same date it gives the same index), its index is within
\* 0 .. QuoteCount - 1, and by the last day of a year every index of the list
\* has been selected.
C17_QuoteIsFunctionOfDateAndCoversList ==
    /\ [](sample # <<>> =>
            /\ sample.index \in 0 .. (QuoteCount - 1)
            /\ (sample.date.m = 12 /\ sample.date.d = 31) =>
                  sample.seen = 0 .. (QuoteCount - 1))
    /\ [][QuoteLater => sample'.index = sample.index]_vars

\* C17 witness: the last day of a year, late in the day, all five indices seen
C17_Witness ==
    /\ sample # <<>>
    /\ sample.date.m = 12 /\ sample.date.d = 31
    /\ sample.tick > 0
    /\ Cardinality(sample.seen) = 5

\* C18: the selected quote changes daily: on every two consecutive calendar
\* dates, month ends and year ends included, the selector gives different
\* items.
C18_QuoteChangesEveryDay ==
    [][QuoteNextDay => sample'.index # sample.index]_vars

\* view is the ids of the tasks with createdAt = day, in the order of tasks
ViewShows(tasks, view, day) ==
    LET keep == {i \in 1 .. Len(tasks) : tasks[i].createdAt = day}
        rank(i) == Cardinality({j \in keep : j <= i})
    IN  /\ Len(view) = Cardinality(keep)
        /\ \A i \in keep : view[rank(i)] = tasks[i].id

\* C19: the home view shows exactly the tasks whose createdAt is today's
\* local date key, in collection order, whenever no midnight timer is due;
\* when the timer fires the tasks of the previous day leave the view and stay
\* in the session's and in the stored collection.
C19_HomeViewShowsTodaysTasks ==
    /\ []((hOpen /\ \A k \in 1 .. Len(hTimers) : hTimers[k] > today) =>
             ViewShows(hState.tasks, hView, today))
    /\ [][ \A k \in 1 .. MaxTasks :
             MidnightRefresh(k) =>
                /\ ViewShows(hState.tasks, hView', today)
                /\ hState' = hState
                /\ storage' = storage
         ]_vars

\* C19 witness: a page loaded on day 1 (it shows day 1's quote) whose timer
\* has fired on day 2: the view is empty, the task of day 1 is still stored
C19_Witness ==
    /\ hOpen
    /\ today = 2
    /\ hQuote = <<getDailyQuote(FirstDate)>>
    /\ hTimers = <<today + 1>>
    /\ hView = <<>>
    /\ Len(hState.tasks) > 0
    /\ Stored(storage) = hState.tasks

\* C20: after the midnight timer fires, the quote displayed is the
\* selector's pick for the new local date.
C20_QuoteFollowsMidnight ==
    [][ \A k \in 1 .. MaxTasks :
          MidnightRefresh(k) => hQuote' = <<getDailyQuote(DateOfDay(today))>>
      ]_vars

\* C21: on a home page session exactly one midnight timer is pending in every
\* state (none without a session); each firing arms exactly one new timer,
\* for the local midnight that follows the firing; and whenever a midnight
\* has passed with the page open, the timer fires.
C21_TimerRearmsItself ==
    /\ [](hOpen => (Len(hTimers) = 1 /\ hTimers[1] <= today + 1))
    /\ [](~hOpen => hTimers = <<>>)
    /\ [][ \A k \in 1 .. MaxTasks : MidnightRefresh(k) => hTimers' = <<today + 1>> ]_vars
    /\ \A d \in 1 .. todayKey(MaxTimerClock) :
          (hOpen /\ today = d /\ hTimers[1] <= d) ~> (~hOpen \/ hTimers[1] > d)

\* C21 witness: a session that began on day 1 is on day 3 and its timer is
\* armed for day 4
C21_Witness ==
    /\ hOpen
    /\ hQuote = <<getDailyQuote(FirstDate)>>
    /\ today = 3
    /\ hTimers = <<4>>
    /\ Len(hState.tasks) > 0

\* C22: a firing of the midnight timer is not a state mutation: the home
\* session's in-memory state and the persisted record (tasks, title,
\* appTitle, theme) are what they were, without and with the year grid in the
\* document (when the callback runs initCalendar, which ends in applyTheme).
C22_TimerFiringMutatesNothing ==
    [][ \A k \in 1 .. MaxTasks :
          MidnightRefresh(k) =>
             /\ hState' = hState
             /\ storage' # <<>>
             /\ storage'[1].tasks = loadState.tasks
             /\ storage'[1].title = loadState.title
             /\ storage'[1].appTitle = loadState.appTitle
             /\ storage'[1].theme = loadState.theme
      ]_vars

\* C22 witness: the timer has just fired on a document with the year grid;
\* a task is stored, and the stored theme is not the one the session loaded
C22_Witness ==
    /\ last = "RefreshCalendar"
    /\ hOpen
    /\ hTimers = <<today + 1>>
    /\ Len(Stored(storage)) > 0
    /\ storage[1].theme = "dark"
    /\ hState.theme = "light"

\* C23: after a create, a toggle, a Save Day or a delete on the home page,
\* the stored item parses to a task collection equal, task by task and in
\* order, to the collection the page holds, and the page's state is what its
\* own serialization parses to.
C23_StoredEqualsMemoryAfterHomeOperation ==
    last \in {"CreateTask", "HomeToggle", "HomeDelete", "SaveDay"} =>
        /\ storage # <<>>
        /\ Len(loadState.tasks) = Len(hState.tasks)
        /\ \A i \in 1 .. Len(hState.tasks) : loadState.tasks[i] = hState.tasks[i]
        /\ parse(stringify(hState)) = hState

\* C23 witness: after Save Day the page holds a task just finalized in front of
\* an older one without a completion date, and the store holds the same
C23_Witness ==
    /\ last = "SaveDay"
    /\ Len(hState.tasks) = 2
    /\ hState.tasks[1].completedAt = today
    /\ hState.tasks[2].completedAt = Null
    /\ hState.tasks[2].createdAt < today
    /\ Stored(storage) = hState.tasks

\* C24: while no item is stored or the item cannot be parsed, loadState
\* returns the fresh state (no tasks, empty title, theme light, appTitle
\* 'Legacy Arc'), and either page initializes from it: the home page holds the
\* fresh state, shows an empty list and arms its timer, the calendar page
\* opens, and the store holds a readable fresh record afterwards.
C24_UnusableStoreLoadsFreshState ==
    /\ [](Unusable(storage) # "" =>
            /\ loadState = [appTitle |-> DefaultAppTitle, title |-> <<>>,
                            tasks |-> <<>>, theme |-> "light"]
            /\ (~hOpen => ENABLED InitTodos)
            /\ (~cOpen => ENABLED InitCalendar))
    /\ [][ Unusable(storage) # "" =>
             /\ InitTodos =>
                   /\ hOpen'
                   /\ hState' = FreshState
                   /\ hView' = <<>> /\ ~hSaveBtn'
                   /\ hTimers' = <<today + 1>>
                   /\ storage' = <<FreshState>>
             /\ InitCalendar =>
                   /\ cOpen'
                   /\ storage' = <<FreshState>>
          ]_vars

\* C24 witness: the home page has just initialized from an item that could not
\* be parsed
C24_Witness ==
    /\ last = "InitTodosUnparsable"
    /\ hOpen
    /\ hState = FreshState
    /\ storage = <<FreshState>>

\* no createdAt and no completedAt of the collection is in the legacy format
NoLegacyDate(tasks) ==
    \A i \in 1 .. Len(tasks) :
        ~IsLegacy(tasks[i].createdAt) /\ ~IsLegacy(tasks[i].completedAt)

\* C25: when a page loads the state, legacy-format dates are converted to
\* local date keys, on the home page and on the calendar page alike: the
\* collection the home page holds after initTodos, and the collection
\* initCalendar derives doneDates and its panels from, hold no legacy date,
\* and no legacy date is in doneDates.
C25_NoLegacyDateAfterLoad ==
    [][ /\ InitTodos => NoLegacyDate(hState'.tasks)
        /\ InitCalendar =>
              /\ NoLegacyDate(loadState.tasks)
              /\ \A d \in doneDates(loadState.tasks) : ~IsLegacy(d)
      ]_vars

\* the instant at which a device with this offset begins its local day
LocalMidnight(day, offset) == ((day - 1) * TicksPerDay) - offset

\* the number a string of digits writes
RECURSIVE Number(_)
Number(s) ==
    IF s = <<>> THEN 0
    ELSE (10 * Number(SubSeq(s, 1, Len(s) - 1)))
            + (CHOOSE n \in 0 .. 9 : Digit(n) = s[Len(s)])

\* key is YYYY-MM-DD for the calendar date of this day
IsKeyOf(key, day) ==
    /\ Len(key) = 10
    /\ key[5] = "-" /\ key[8] = "-"
    /\ Number(SubSeq(key, 1, 4)) = DateOfDay(day).y
    /\ Number(SubSeq(key, 6, 7)) = DateOfDay(day).m
    /\ Number(SubSeq(key, 9, 10)) = DateOfDay(day).d

\* C26: at every instant and on a device of every UTC offset, todayKey and
\* formatLocalDate give the key of the local day the instant falls in (the
\* day whose local midnight is the last one not after the instant), never the
\* key of the UTC day where that is another day.
C26_KeysAreLocalDays ==
    sample # <<>> =>
        \A day \in 1 .. (toISODay(MaxKeyInstant) + 1) :
            (LocalMidnight(day, sample.offset) <= sample.instant
                /\ sample.instant < LocalMidnight(day + 1, sample.offset)) =>
               /\ IsKeyOf(sample.todayKey, day)
               /\ IsKeyOf(sample.formatLocalDate, day)
               /\ day # toISODay(sample.instant) =>
                     /\ ~IsKeyOf(sample.todayKey, toISODay(sample.instant))
                     /\ ~IsKeyOf(sample.formatLocalDate, toISODay(sample.instant))

\* C26 witness: a device ahead of UTC, in the first reading of February 1st
\* local time, while the UTC day is still January 31st
C26_Witness ==
    /\ sample # <<>>
    /\ sample.offset > 0
    /\ sample.todayKey = <<"2", "0", "2", "4", "-", "0", "2", "-", "0", "1">>
    /\ sample.formatLocalDate = sample.todayKey
    /\ IsKeyOf(sample.todayKey, toISODay(sample.instant) + 1)

\* createdAt does not increase along the collection
NewestFirst(tasks) ==
    \A i, j \in 1 .. Len(tasks) : i < j => tasks[i].createdAt >= tasks[j].createdAt

\* new is old with its tasks in the same relative order: all of them, or all
\* but those of one id
OrderKept(old, new) ==
    \/ new = old
    \/ /\ Len(new) = Len(old)
       /\ \A i \in 1 .. Len(old) : new[i].id = old[i].id
    \/ \E id \in 0 .. MaxClock : Removed(old, new, id)

\* C27: the collection is newest-created-first: a create puts the new task
\* at index 0 in front of the tasks there were, in their order; every other
\* step keeps the relative order of the tasks it keeps, in the home session's
\* collection and in the stored one (a home handler stores the collection it
\* holds); so createdAt never increases along either collection.
C27_NewestCreatedFirst ==
    /\ [](NewestFirst(hState.tasks) /\ NewestFirst(Stored(storage)))
    /\ [][ /\ \A input \in TaskInputs :
                 (CreateTask(input) /\ ~IsBlank(input)) =>
                    /\ Tail(hState'.tasks) = hState.tasks
                    /\ Head(hState'.tasks).createdAt = today
                    /\ Stored(storage') = hState'.tasks
           /\ \/ ~hOpen \/ ~hOpen'
              \/ OrderKept(hState.tasks, hState'.tasks)
              \/ \E input \in TaskInputs : CreateTask(input)
           /\ \/ OrderKept(Stored(storage), Stored(storage'))
              \/ HomeWrites /\ Stored(storage') = hState'.tasks
         ]_vars

\* C27 witness: a task has just been created on day 2 in front of a task of
\* day 1
C27_Witness ==
    /\ last = "CreateTask"
    /\ Len(hState.tasks) = 2
    /\ hState.tasks[1].createdAt = 2
    /\ hState.tasks[2].createdAt = 1
    /\ Stored(storage) = hState.tasks

\* C28: with a home session and a calendar session on the same store, a
\* step of a home handler loses nothing the calendar session wrote: it
\* changes the stored collection by its own operation only (a create adds
\* its task in front, a toggle touches the tasks of its id, a delete removes
\* them, Save Day stamps today's checked tasks, a title save changes no
\* task), so a task the calendar deleted stays deleted and a completion it
\* recorded stays recorded.
C28_HomeWriteLosesNoCalendarWrite ==
    [][ /\ \A input \in TaskInputs :
             (CreateTask(input) /\ ~IsBlank(input)) =>
                Tail(Stored(storage')) = Stored(storage)
        /\ \A id \in 0 .. MaxClock :
             (HomeToggle(id) /\ FindIdx(hState.tasks, id) # 0) =>
                deleteTask(Stored(storage'), id) = deleteTask(Stored(storage), id)
        /\ \A id \in 0 .. MaxClock :
             HomeDelete(id) => Stored(storage') = deleteTask(Stored(storage), id)
        /\ SaveDay => Stored(storage') = finalizeDay(Stored(storage), today)
        /\ (\E input \in TitleInputs : SaveTitle(input)) =>
              Stored(storage') = Stored(storage)
      ]_vars

\* C29: the persisted theme changes only by toggleTheme: a create, a toggle,
\* a Save Day, a delete or a title save on the home page stores the theme
\* that was stored before it.
C29_HomeWriteKeepsStoredTheme ==
    [][ HomeWrites => (storage' # <<>> /\ storage'[1].theme = loadState.theme) ]_vars

\* every completedAt of the collection is the createdAt of its task
StampedOnOwnDay(tasks) ==
    \A i \in 1 .. Len(tasks) :
        tasks[i].completedAt # Null => tasks[i].completedAt = tasks[i].createdAt

\* C30: from an empty store without legacy data, in every reachable state a
\* task with a completedAt has completedAt = createdAt, in the home session's
\* and in the stored collection; Save Day stamps only tasks created today,
\* with today, and a calendar panel opened for a date lists only tasks whose
\* createdAt or completedAt is that date.
C30_CompletedAtIsCreatedAt ==
    /\ [](StampedOnOwnDay(hState.tasks) /\ StampedOnOwnDay(Stored(storage)))
    /\ [][ /\ SaveDay =>
                 \A i \in 1 .. Len(hState.tasks) :
                    hState'.tasks[i].completedAt # hState.tasks[i].completedAt =>
                       /\ hState.tasks[i].createdAt = today
                       /\ hState'.tasks[i].completedAt = today
           /\ \A d \in Days :
                 OpenInlinePanel(d) =>
                    \A k \in 1 .. Len(cPanel'[1].boxes) :
                       \E i \in 1 .. Len(Stored(storage)) :
                          /\ Stored(storage)[i].id = cPanel'[1].boxes[k].id
                          /\ \/ Stored(storage)[i].createdAt = d
                             \/ Stored(storage)[i].completedAt = d
         ]_vars

\* C30 witness: a task of day 1 has just been checked in the calendar panel of
\* day 1, on day 2, behind a task of day 2 that Save Day finalized
C30_Witness ==
    /\ last = "CalToggle"
    /\ today = 2
    /\ cPanel[1].date = 1
    /\ Len(Stored(storage)) = 2
    /\ Stored(storage)[1].createdAt = 2 /\ Stored(storage)[1].completedAt = 2
    /\ Stored(storage)[2].createdAt = 1 /\ Stored(storage)[2].completedAt = 1

\* no createdAt and no completedAt of the collection is later than the day
NoFutureDate(tasks, day) ==
    \A i \in 1 .. Len(tasks) :
        /\ tasks[i].createdAt <= day
        /\ tasks[i].completedAt # Null => tasks[i].completedAt <= day

\* C31: with a clock that never goes backward and a store that is first
\* empty, in every reachable state every task's createdAt and every present
\* completedAt is a date not later than the current local date, in the home
\* session's and in the stored collection; no completion is attributed to a
\* future day (a panel opened for a future date offers no checkbox), so the
\* longest streak of the current year counts no day after today.
C31_NoDateAfterToday ==
    /\ NoFutureDate(hState.tasks, today)
    /\ NoFutureDate(Stored(storage), today)
    /\ \A d \in doneDates(Stored(storage)) : d <= today
    /\ (cPanel # <<>> /\ cPanel[1].date > today) => cPanel[1].boxes = <<>>
    /\ \A gap \in {0} \cup Days :
          longestStreak(doneDates(Stored(storage)), yearOf(today), gap)
             = longestStreak(doneDates(Stored(storage)) \cap (1 .. today), yearOf(today), gap)

\* C31 witness: on day 1 the calendar shows the panel of day 2, a future
\* date, while a task of day 1 is stored with its completion date
C31_Witness ==
    /\ today = 1
    /\ cPanel # <<>>
    /\ cPanel[1].date = 2
    /\ \E i \in 1 .. Len(Stored(storage)) :
          /\ Stored(storage)[i].createdAt = 1
          /\ Stored(storage)[i].completedAt = 1

\* the collection has a task created on the day, and every such task is checked
TodayAllChecked(tasks, day) ==
    /\ \E i \in 1 .. Len(tasks) : tasks[i].createdAt = day
    /\ \A i \in 1 .. Len(tasks) : tasks[i].createdAt = day => tasks[i].completed

\* every task of the collection created on the day is checked and finalized
TodayFinalized(tasks, day) ==
    \A i \in 1 .. Len(tasks) :
        tasks[i].createdAt = day => (tasks[i].completed /\ tasks[i].completedAt = day)

\* C32: Save Day can be triggered only when the rendered home view has at
\* least one task created today and every task created today is checked;
\* right after a Save Day step of a home page session every task with
\* createdAt = today has completed = TRUE and completedAt = today.
C32_SaveDayOnlyWhenTodayAllChecked ==
    [][ SaveDay =>
           /\ \E k \in 1 .. Len(hView) : \E i \in 1 .. Len(hState.tasks) :
                 hState.tasks[i].id = hView[k] /\ hState.tasks[i].createdAt = today
           /\ TodayAllChecked(hState.tasks, today)
           /\ TodayFinalized(hState'.tasks, today)
      ]_vars

\* C32 as far as it goes: the button takes a click when the view rendered
\* last showed a task and only checked tasks; these are the tasks created
\* today, or, while a midnight timer is due and nothing was rendered since
\* midnight, tasks of earlier days; after the step every task created today
\* is checked and finalized (there is none in the second case)
C32_SaveDayAfterLastRender ==
    [][ SaveDay =>
           /\ hView # <<>>
           /\ \A k \in 1 .. Len(hView) : \E i \in 1 .. Len(hState.tasks) :
                 hState.tasks[i].id = hView[k] /\ hState.tasks[i].completed
           /\ (\A k \in 1 .. Len(hTimers) : hTimers[k] > today) =>
                 TodayAllChecked(hState.tasks, today)
           /\ \/ TodayAllChecked(hState.tasks, today)
              \/ /\ \E k \in 1 .. Len(hTimers) : hTimers[k] <= today
                 /\ \A i \in 1 .. Len(hState.tasks) : hState.tasks[i].createdAt < today
           /\ TodayFinalized(hState'.tasks, today)
      ]_vars

\* C33: the backward walk that computes currentStreak terminates for every
\* finite task collection, after visiting at most (number of distinct dates
\* in doneDates + 1) days; what it shows is the streak of C14, and it visits
\* one day more than it counts.
C33_CurrentStreakWalkTerminates ==
    /\ [](/\ sample.visits <= Cardinality(sample.doneDates) + 1
          /\ sample.visits = sample.today - sample.d + (IF sample.pc = "shown" THEN 1 ELSE 0)
          /\ sample.pc = "while" => sample.visits < MaxVisits)
    /\ <>(sample.pc = "shown")
    /\ [](sample.pc = "shown" =>
             /\ sample.streak = currentStreak(sample.doneDates, sample.today)
             /\ sample.visits = sample.streak + 1)

\* C33 witness: a walk that has ended after as many visits as the bound
\* allows, over the year's end: three done days up to today, four visits
C33_Witness ==
    /\ sample.pc = "shown"
    /\ sample.today = YearLen + 1
    /\ Cardinality(sample.doneDates) = 3
    /\ sample.streak = 3
    /\ sample.visits = 4
====
